---- MODULE Spec2Model ----
(***************************************************************************)
(* Model of update-metadata.mjs: the script that reads its configuration   *)
(* from the environment, fetches a token-metadata record, builds the       *)
(* updateMetadataAccountV2 instruction, converts it to a web3.js           *)
(* transaction, serializes it without signatures and prints it in base58.  *)
(*                                                                         *)
(* Text is a sequence of character codes: 0..57 are the base58 alphabet    *)
(* "123456789ABC...xyz" in alphabet order, SP is a whitespace character    *)
(* and BADCH a printable character outside the base58 alphabet.  Bytes are *)
(* naturals in 0..255.  Public keys are KeyLen bytes wide.                 *)
(***************************************************************************)
EXTENDS Integers, Sequences, FiniteSets, TLC

\* ------------------------------------------------------------------ bounds
KeyLen == 1

\* --------------------------------------------------------------- alphabet
BASE == 58
SP == 58
BADCH == 59

\* the largest serialized transaction the ledger accepts, in bytes
PACKET_DATA_SIZE == 1232

\* ------------------------------------------------------- sequence helpers
\* (operands are bound as values, v, before they are indexed)
Reverse(s) ==
  CHOOSE r \in { [i \in 1..Len(v) |-> v[Len(v) + 1 - i]] : v \in {s} } : TRUE

Repeat(x, n) == [i \in 1..n |-> x]

RECURSIVE LeadingCount(_, _)
LeadingCount(s, x) ==
  IF s = <<>> \/ Head(s) # x THEN 0 ELSE 1 + LeadingCount(Tail(s), x)

Drop(s, n) == SubSeq(s, n + 1, Len(s))

\* ------------------------------------------------------- String.trim()
\* index of the first character at or after i that is not whitespace
RECURSIVE TrimStart(_, _)
TrimStart(s, i) == IF i <= Len(s) /\ s[i] = SP THEN TrimStart(s, i + 1) ELSE i

\* index of the last character at or before i that is not whitespace
RECURSIVE TrimEnd(_, _)
TrimEnd(s, i) == IF i >= 1 /\ s[i] = SP THEN TrimEnd(s, i - 1) ELSE i

Trim(s) == SubSeq(s, TrimStart(s, 1), TrimEnd(s, Len(s)))

\* ------------------------------------------------------------ bs58 codec
\* One pass of the base conversion over digits lo..hi of digs, a
\* little-endian number in base `to`: every digit is multiplied by `from`
\* and the carry moves up.  The range is split in halves, the carry out of
\* the lower half entering the upper one; the halves are bound as values
\* (l, r) before they are combined.
RECURSIVE MulAddRange(_, _, _, _, _, _)
MulAddRange(digs, lo, hi, carry, from, to) ==
  IF lo > hi THEN [out |-> <<>>, carry |-> carry]
  ELSE IF lo = hi
  THEN LET c == carry + from * digs[lo]
       IN  [out |-> <<c % to>>, carry |-> c \div to]
  ELSE LET mid == (lo + hi) \div 2
       IN  CHOOSE res \in
             UNION { { [out |-> l.out \o r.out, carry |-> r.carry] :
                       r \in {MulAddRange(digs, mid + 1, hi, l.carry, from, to)} } :
                     l \in {MulAddRange(digs, lo, mid, carry, from, to)} } : TRUE

RECURSIVE CarryDigits(_, _)
CarryDigits(carry, to) ==
  IF carry = 0 THEN <<>> ELSE <<carry % to>> \o CarryDigits(carry \div to, to)

\* digs * from + carry
MulAdd(digs, carry, from, to) ==
  CHOOSE res \in { r.out \o CarryDigits(r.carry, to) :
                   r \in {MulAddRange(digs, 1, Len(digs), carry, from, to)} } : TRUE

\* the digits src[lo..hi] (big-endian, base `from`) pushed into acc
RECURSIVE ConvertRange(_, _, _, _, _, _)
ConvertRange(src, lo, hi, acc, from, to) ==
  IF lo > hi THEN acc
  ELSE IF lo = hi THEN MulAdd(acc, src[lo], from, to)
  ELSE LET mid == (lo + hi) \div 2
       IN  CHOOSE res \in
             UNION { { ConvertRange(src, mid + 1, hi, l, from, to) } :
                     l \in {ConvertRange(src, lo, mid, acc, from, to)} } : TRUE

Convert(src, acc, from, to) ==
  CHOOSE res \in { ConvertRange(s, 1, Len(s), acc, from, to) : s \in {src} } : TRUE

\* the conversion without the leader handling (a plain big-number change of
\* base); used to state what a leader-less encoder would do
bs58encodeNoLeader(bytes) == Reverse(Convert(bytes, <<>>, 256, BASE))

bs58encode(bytes) ==
  LET zeroes == LeadingCount(bytes, 0)
  IN  Repeat(0, zeroes) \o Reverse(Convert(Drop(bytes, zeroes), <<>>, 256, BASE))

bs58valid(text) == \A i \in 1..Len(text) : text[i] \in 0..(BASE - 1)

bs58decode(text) ==
  LET zeroes == LeadingCount(text, 0)
  IN  Repeat(0, zeroes) \o Reverse(Convert(Drop(text, zeroes), <<>>, BASE, 256))


\* -------------------------------------------------------------- addresses
\* a KeyLen-byte key whose last byte is d, and its base58 text
PadKey(d) == Repeat(0, KeyLen - 1) \o <<d>>
KeyStr(d) == bs58encode(PadKey(d))

\* new Web3PublicKey(text) succeeds iff text decodes to exactly KeyLen bytes
IsPublicKey(text) == bs58valid(text) /\ Len(bs58decode(text)) = KeyLen

\* ------------------------------------------------------------ environment
Unset == [defined |-> FALSE, text |-> <<>>]
Str(t) == [defined |-> TRUE, text |-> t]

MintEnv == {Unset, Str(<<SP, SP>>), Str(KeyStr(2)), Str(<<BADCH>>)}
AuthEnv == {Str(<<>>), Str(<<SP>> \o KeyStr(3)), Str(<<0>> \o KeyStr(3))}
\* the last value is a URI too long for any transaction to carry
UriEnv == {Unset, Str(<<SP>>), Str(<<20, 21, SP>>), Str(Repeat(20, PACKET_DATA_SIZE))}
NameEnv == {Unset, Str(<<30, SP>>)}
SymbolEnv == {Str(<<SP>>), Str(<<31>>)}

\* mustEnv(name): the value is present and non-blank; returns it trimmed
mustEnvOk(v) == v.defined /\ v.text # <<>> /\ Trim(v.text) # <<>>
mustEnv(v) == Trim(v.text)

\* optEnv(name): the trimmed value, or undefined when absent or blank
optEnv(v) == IF v.defined /\ v.text # <<>> /\ Trim(v.text) # <<>>
             THEN Str(Trim(v.text)) ELSE Unset

\* --------------------------------------------------------- on-chain record
None == [option |-> "None", value |-> <<>>]
Some(v) == [option |-> "Some", value |-> <<v>>]

Creator1 == [address |-> KeyStr(5), verified |-> TRUE, share |-> 100]
Collection1 == [verified |-> FALSE, key |-> KeyStr(6)]
Uses1 == [useMethod |-> 1, remaining |-> 2, total |-> 3]

Records ==
  [ updateAuthority : {KeyStr(3), KeyStr(4)},
    isMutable : BOOLEAN,
    name : {<<40>>},
    symbol : {<<41>>},
    uri : {<<42, 43>>},
    sellerFeeBasisPoints : {0, 500},
    creators : {None, Some(<<>>), Some(<<Creator1>>)},
    collection : {None, Some(Collection1)},
    uses : {None, Some(Uses1)},
    primarySaleHappened : {FALSE} ]

NoRecord ==
  [ updateAuthority |-> <<>>, isMutable |-> TRUE, name |-> <<>>, symbol |-> <<>>,
    uri |-> <<>>, sellerFeeBasisPoints |-> 0, creators |-> None,
    collection |-> None, uses |-> None, primarySaleHappened |-> FALSE ]

NoData ==
  [ name |-> <<>>, symbol |-> <<>>, uri |-> <<>>, sellerFeeBasisPoints |-> 0,
    creators |-> None, collection |-> None, uses |-> None ]


\* ------------------------------------------- instruction payload (borsh)
\* little-endian unsigned integer of w bytes
RECURSIVE LE(_, _)
LE(n, w) == IF w = 0 THEN <<>> ELSE <<n % 256>> \o LE(n \div 256, w - 1)

BorshBool(b) == IF b THEN <<1>> ELSE <<0>>
BorshString(t) == LE(Len(t), 4) \o t
BorshKey(text) == bs58decode(text)
BorshCreator(c) == BorshKey(c.address) \o BorshBool(c.verified) \o <<c.share>>

RECURSIVE BorshCreators(_)
BorshCreators(cs) ==
  IF cs = <<>> THEN <<>> ELSE BorshCreator(Head(cs)) \o BorshCreators(Tail(cs))

BorshOptCreators(o) ==
  IF o.option = "None" THEN <<0>>
  ELSE <<1>> \o LE(Len(o.value[1]), 4) \o BorshCreators(o.value[1])

BorshOptCollection(o) ==
  IF o.option = "None" THEN <<0>>
  ELSE <<1>> \o BorshBool(o.value[1].verified) \o BorshKey(o.value[1].key)

BorshOptUses(o) ==
  IF o.option = "None" THEN <<0>>
  ELSE <<1, o.value[1].useMethod>> \o LE(o.value[1].remaining, 8)
       \o LE(o.value[1].total, 8)

BorshDataV2(d) ==
  BorshString(d.name) \o BorshString(d.symbol) \o BorshString(d.uri)
  \o LE(d.sellerFeeBasisPoints, 2) \o BorshOptCreators(d.creators)
  \o BorshOptCollection(d.collection) \o BorshOptUses(d.uses)

\* the argument block of updateMetadataAccountV2: discriminator, Some(data),
\* newUpdateAuthority = null, Some(primarySaleHappened), Some(isMutable)
UpdateArgsBytes(d, psh, mut) ==
  <<15>> \o <<1>> \o BorshDataV2(d) \o <<0>> \o <<1>> \o BorshBool(psh)
  \o <<1>> \o BorshBool(mut)

\* ------------------------------------------------- the instruction builder
TOKEN_METADATA_PROGRAM == KeyStr(9)
OTHER_PROGRAM == KeyStr(8)

\* findMetadataPda: the derived address of the mint's metadata account (the
\* hash-based derivation is abstracted to a fixed injective map)
findMetadataPda(mint) == KeyStr((bs58decode(mint)[KeyLen] + 5) % 256)

Meta(k, s, w) == [pubkey |-> k, isSigner |-> s, isWritable |-> w]

NoIx == [programId |-> <<>>, keys |-> <<>>, data |-> <<>>]

\* the instruction the library builds for updateMetadataAccountV2
UpdateIx(pda, auth, d, psh, mut) ==
  [ programId |-> TOKEN_METADATA_PROGRAM,
    keys |-> << Meta(pda, FALSE, TRUE), Meta(auth, TRUE, FALSE) >>,
    data |-> UpdateArgsBytes(d, psh, mut) ]

\* other instructions a builder of another library version may carry: one
\* that lists the same address twice with different flags and one whose
\* address is not a public key
ExtraIx(pda, auth) ==
  [ programId |-> OTHER_PROGRAM,
    keys |-> << Meta(auth, FALSE, FALSE), Meta(pda, FALSE, FALSE),
                Meta(auth, TRUE, TRUE) >>,
    data |-> <<0, 255>> ]

BadAddressIx(auth) ==
  [ programId |-> OTHER_PROGRAM,
    keys |-> << Meta(auth, TRUE, FALSE), Meta(<<BADCH>>, FALSE, TRUE) >>,
    data |-> <<7>> ]

IxItem(ix) == [kind |-> "ix", instruction |-> ix]
NullItem == [kind |-> "null", instruction |-> NoIx]
EmptyItem == [kind |-> "noInstruction", instruction |-> NoIx]

NoBuilder == [shape |-> "none", items |-> <<>>]

\* what updateMetadataAccountV2 may hand back, over library versions: a
\* builder exposing getInstructions(), a builder exposing only an items
\* array (entries may be null or carry no instruction), or neither
BuilderResults(pda, auth, d, psh, mut) ==
  LET upd == IxItem(UpdateIx(pda, auth, d, psh, mut))
      ext == IxItem(ExtraIx(pda, auth))
  IN  [ shape : {"getInstructions"},
        items : { <<>>, <<upd>>, <<ext, upd>>, <<IxItem(BadAddressIx(auth))>> } ]
      \cup
      [ shape : {"items"},
        items : { <<>>, <<NullItem, EmptyItem>>,
                  <<NullItem, upd, EmptyItem, ext>> } ]
      \cup
      [ shape : {"other"}, items : { <<>> } ]

\* builder.getInstructions()
RECURSIVE getInstructions(_)
getInstructions(items) ==
  IF items = <<>> THEN <<>>
  ELSE <<Head(items).instruction>> \o getInstructions(Tail(items))

\* the items mapping without the filter(Boolean)
itemsInstructionsUnfiltered(items) == getInstructions(items)

\* builder.items.map((it) => it && it.instruction).filter(Boolean)
RECURSIVE itemsInstructions(_)
itemsInstructions(items) ==
  IF items = <<>> THEN <<>>
  ELSE (IF Head(items).kind = "ix" THEN <<Head(items).instruction>> ELSE <<>>)
       \o itemsInstructions(Tail(items))

\* --------------------------------------- Transaction.serialize (web3.js)
RECURSIVE ShortVec(_)
ShortVec(n) ==
  IF n < 128 THEN <<n>> ELSE <<(n % 128) + 128>> \o ShortVec(n \div 128)

\* position of the first entry with this key, 0 when there is none
KeyIndex(metas, k) ==
  IF \E i \in 1..Len(metas) : metas[i].pubkey = k
  THEN CHOOSE i \in 1..Len(metas) :
         /\ metas[i].pubkey = k
         /\ \A j \in 1..(i - 1) : metas[j].pubkey # k
  ELSE 0

\* every account of every instruction, then the program ids
RECURSIVE InstructionMetas(_)
InstructionMetas(ixs) ==
  IF ixs = <<>> THEN <<>> ELSE Head(ixs).keys \o InstructionMetas(Tail(ixs))

ProgramMetas(ixs) == [i \in 1..Len(ixs) |-> Meta(ixs[i].programId, FALSE, FALSE)]

\* duplicates are culled, their flags or-ed into the first occurrence
RECURSIVE UniqueMetas(_, _)
UniqueMetas(metas, acc) ==
  IF metas = <<>> THEN acc
  ELSE LET m == Head(metas)
           i == KeyIndex(acc, m.pubkey)
       IN  UniqueMetas(Tail(metas),
             IF i = 0 THEN Append(acc, m)
             ELSE [acc EXCEPT ![i].isWritable = @ \/ m.isWritable,
                              ![i].isSigner = @ \/ m.isSigner])

RECURSIVE LexLess(_, _)
LexLess(a, b) ==
  IF b = <<>> THEN FALSE
  ELSE IF a = <<>> THEN TRUE
  ELSE IF Head(a) # Head(b) THEN Head(a) < Head(b)
  ELSE LexLess(Tail(a), Tail(b))

\* signers first, then writable first, then by base58 text
MetaBefore(x, y) ==
  IF x.isSigner # y.isSigner THEN x.isSigner
  ELSE IF x.isWritable # y.isWritable THEN x.isWritable
  ELSE LexLess(bs58encode(x.pubkey), bs58encode(y.pubkey))

RECURSIVE InsertMeta(_, _)
InsertMeta(sorted, m) ==
  IF sorted = <<>> THEN <<m>>
  ELSE IF MetaBefore(m, Head(sorted)) THEN <<m>> \o sorted
  ELSE <<Head(sorted)>> \o InsertMeta(Tail(sorted), m)

RECURSIVE SortMetas(_, _)
SortMetas(metas, acc) ==
  IF metas = <<>> THEN acc
  ELSE SortMetas(Tail(metas), InsertMeta(acc, Head(metas)))

\* the fee payer moves to the front as a writable signer
WithFeePayer(metas, payer) ==
  <<Meta(payer, TRUE, TRUE)>> \o SelectSeq(metas, LAMBDA m : m.pubkey # payer)

AccountMetas(t) ==
  WithFeePayer(
    SortMetas(UniqueMetas(InstructionMetas(t.instructions)
                          \o ProgramMetas(t.instructions), <<>>), <<>>),
    t.feePayer)

CountMetas(metas, s, w) ==
  Cardinality({i \in 1..Len(metas) :
                 metas[i].isSigner = s /\ (w => ~metas[i].isWritable)})

RECURSIVE AccountKeys(_)
AccountKeys(metas) ==
  IF metas = <<>> THEN <<>> ELSE Head(metas).pubkey \o AccountKeys(Tail(metas))

CompiledInstruction(ix, metas) ==
  <<KeyIndex(metas, ix.programId) - 1>>
  \o ShortVec(Len(ix.keys))
  \o [i \in 1..Len(ix.keys) |-> KeyIndex(metas, ix.keys[i].pubkey) - 1]
  \o ShortVec(Len(ix.data)) \o ix.data

RECURSIVE CompiledInstructions(_, _)
CompiledInstructions(ixs, metas) ==
  IF ixs = <<>> THEN <<>>
  ELSE CompiledInstruction(Head(ixs), metas)
       \o CompiledInstructions(Tail(ixs), metas)

MessageBytes(t, metas) ==
  << CountMetas(metas, TRUE, FALSE), CountMetas(metas, TRUE, TRUE),
     CountMetas(metas, FALSE, TRUE) >>
  \o ShortVec(Len(metas)) \o AccountKeys(metas)
  \o bs58decode(t.recentBlockhash)
  \o ShortVec(Len(t.instructions))
  \o CompiledInstructions(t.instructions, metas)

serializeMessage(t) ==
  CHOOSE bytes \in { MessageBytes(t, metas) : metas \in {AccountMetas(t)} } : TRUE

\* a signature is twice as wide as a key; an absent one is written as zeros
SignatureLen == 2 * KeyLen

serialize(t) ==
  CHOOSE bytes \in
    { ShortVec(n) \o Repeat(0, n * SignatureLen) \o serializeMessage(t) :
      n \in {CountMetas(AccountMetas(t), TRUE, FALSE)} } : TRUE

serializeOk(t) == Len(serialize(t)) <= PACKET_DATA_SIZE

NoTx == [instructions |-> <<>>, recentBlockhash |-> <<>>, feePayer |-> <<>>]


\* ------------------------------------------------------ toWeb3Instruction
ToBoolean(v) == (v = TRUE)

toWeb3Key(k) ==
  [ pubkey |-> bs58decode(k.pubkey),
    isSigner |-> ToBoolean(k.isSigner),
    isWritable |-> ToBoolean(k.isWritable) ]

toWeb3InstructionOk(ix) ==
  /\ IsPublicKey(ix.programId)
  /\ \A i \in 1..Len(ix.keys) : IsPublicKey(ix.keys[i].pubkey)

\* an adapter that culls repeated addresses the way the message compiler does
toWeb3InstructionDedup(ix) ==
  [ programId |-> bs58decode(ix.programId),
    keys |-> UniqueMetas([i \in 1..Len(ix.keys) |-> toWeb3Key(ix.keys[i])], <<>>),
    data |-> [i \in 1..Len(ix.data) |-> ix.data[i] % 256] ]

toWeb3Instruction(ix) ==
  [ programId |-> bs58decode(ix.programId),
    keys |-> [i \in 1..Len(ix.keys) |-> toWeb3Key(ix.keys[i])],
    data |-> [i \in 1..Len(ix.data) |-> ix.data[i] % 256] ]


\* ------------------------------------------------------------------ state
VARIABLES
  env,                  \* process.env: MINT, UPDATE_AUTHORITY, NEW_URI, NEW_NAME, NEW_SYMBOL
  pc,                   \* the statement of main() about to run
  err,                  \* the error thrown, "none" while there is none
  MINT_STR, UPDATE_AUTHORITY_STR, NEW_URI, NEW_NAME, NEW_SYMBOL,
  updateAuthorityWeb3, mintUmi, updateAuthUmi, metadataPda,
  md,                   \* the fetched metadata record
  fetched,              \* the record as the ledger client returned it
  warned,               \* the authority-mismatch warning was printed
  data,                 \* the DataV2 object passed to the builder
  builder,              \* the result of updateMetadataAccountV2
  umiInstructions,
  tx,                   \* the web3.js Transaction
  serialized,
  base58Tx,
  stdout,               \* the base58 transactions printed
  exitCode,
  trace,                \* the statements of main() executed so far, in order
  codecPc, codecIn, codecText, codecOut   \* the output encoding on its own

cfgVars == <<MINT_STR, UPDATE_AUTHORITY_STR, NEW_URI, NEW_NAME, NEW_SYMBOL>>
umiVars == <<updateAuthorityWeb3, mintUmi, updateAuthUmi, metadataPda>>
recVars == <<md, fetched, warned>>
ixVars == <<data, builder, umiInstructions>>
outVars == <<tx, serialized, base58Tx, stdout>>
codecVars == <<codecPc, codecIn, codecText, codecOut>>
vars == <<env, pc, err, cfgVars, umiVars, recVars, ixVars, outVars, exitCode,
          trace, codecVars>>

Blank ==
  /\ err = "none"
  /\ MINT_STR = <<>> /\ UPDATE_AUTHORITY_STR = <<>> /\ NEW_URI = <<>>
  /\ NEW_NAME = Unset /\ NEW_SYMBOL = Unset
  /\ updateAuthorityWeb3 = <<>> /\ mintUmi = <<>> /\ updateAuthUmi = <<>>
  /\ metadataPda = <<>>
  /\ md = NoRecord /\ fetched = NoRecord /\ warned = FALSE
  /\ data = NoData /\ builder = NoBuilder /\ umiInstructions = <<>>
  /\ tx = NoTx /\ serialized = <<>> /\ base58Tx = <<>> /\ stdout = <<>>
  /\ exitCode = 0
  /\ trace = <<>>

Init ==
  /\ env \in [MINT : MintEnv, UPDATE_AUTHORITY : AuthEnv, NEW_URI : UriEnv,
              NEW_NAME : NameEnv, NEW_SYMBOL : SymbolEnv]
  /\ pc = "readEnv"
  /\ Blank
  /\ codecPc = "off" /\ codecIn = <<>> /\ codecText = <<>> /\ codecOut = <<>>

\* a throw: control leaves main() and reaches the catch handler
Throw(step, e) ==
  /\ pc' = "failed"
  /\ err' = e
  /\ trace' = Append(trace, step)

Goto(step, next) ==
  /\ pc' = next
  /\ err' = err
  /\ trace' = Append(trace, step)

\* lines 88-93
ReadEnv ==
  /\ pc = "readEnv"
  /\ IF ~mustEnvOk(env.MINT) \/ ~mustEnvOk(env.UPDATE_AUTHORITY)
        \/ ~mustEnvOk(env.NEW_URI)
     THEN /\ Throw("readEnv", "MissingEnv")
          /\ UNCHANGED cfgVars
     ELSE /\ MINT_STR' = mustEnv(env.MINT)
          /\ UPDATE_AUTHORITY_STR' = mustEnv(env.UPDATE_AUTHORITY)
          /\ NEW_URI' = mustEnv(env.NEW_URI)
          /\ NEW_NAME' = optEnv(env.NEW_NAME)
          /\ NEW_SYMBOL' = optEnv(env.NEW_SYMBOL)
          /\ Goto("readEnv", "assertKeys")
  /\ UNCHANGED <<env, umiVars, recVars, ixVars, outVars, exitCode, codecVars>>

\* a validation that checks the mint only
AssertMintOnly ==
  /\ pc = "assertKeys"
  /\ IF ~IsPublicKey(MINT_STR)
     THEN /\ Throw("assertKeys", "InvalidPublicKey")
          /\ UNCHANGED updateAuthorityWeb3
     ELSE /\ updateAuthorityWeb3' = bs58decode(UPDATE_AUTHORITY_STR)
          /\ Goto("assertKeys", "umiSetup")
  /\ UNCHANGED <<env, cfgVars, mintUmi, updateAuthUmi, metadataPda, recVars,
                 ixVars, outVars, exitCode, codecVars>>

\* lines 95-98
AssertKeys ==
  /\ pc = "assertKeys"
  /\ IF ~IsPublicKey(MINT_STR) \/ ~IsPublicKey(UPDATE_AUTHORITY_STR)
     THEN /\ Throw("assertKeys", "InvalidPublicKey")
          /\ UNCHANGED updateAuthorityWeb3
     ELSE /\ updateAuthorityWeb3' = bs58decode(UPDATE_AUTHORITY_STR)
          /\ Goto("assertKeys", "umiSetup")
  /\ UNCHANGED <<env, cfgVars, mintUmi, updateAuthUmi, metadataPda, recVars,
                 ixVars, outVars, exitCode, codecVars>>

\* lines 101-107
UmiSetup ==
  /\ pc = "umiSetup"
  /\ mintUmi' = MINT_STR
  /\ updateAuthUmi' = UPDATE_AUTHORITY_STR
  /\ metadataPda' = findMetadataPda(MINT_STR)
  /\ Goto("umiSetup", "fetchMetadata")
  /\ UNCHANGED <<env, cfgVars, updateAuthorityWeb3, recVars, ixVars, outVars,
                 exitCode, codecVars>>

\* line 110: the ledger client returns the decoded record
FetchMetadataOk ==
  /\ pc = "fetchMetadata"
  /\ \E r \in Records : md' = r /\ fetched' = r
  /\ Goto("fetchMetadata", "report")
  /\ UNCHANGED <<env, cfgVars, umiVars, warned, ixVars, outVars, exitCode,
                 codecVars>>

\* line 110: the account does not exist or the network fails
FetchMetadataFail ==
  /\ pc = "fetchMetadata"
  /\ Throw("fetchMetadata", "FetchFailed")
  /\ UNCHANGED <<env, cfgVars, umiVars, recVars, ixVars, outVars, exitCode,
                 codecVars>>

\* a report step that treats the mismatch as an error
ReportAborting ==
  /\ pc = "report"
  /\ warned' = (md.updateAuthority # updateAuthUmi)
  /\ IF md.updateAuthority # updateAuthUmi
     THEN Throw("report", "AuthorityMismatch")
     ELSE Goto("report", "checkMutable")
  /\ UNCHANGED <<env, cfgVars, umiVars, md, fetched, ixVars, outVars, exitCode,
                 codecVars>>

\* lines 112-126
Report ==
  /\ pc = "report"
  /\ warned' = (md.updateAuthority # updateAuthUmi)
  /\ Goto("report", "checkMutable")
  /\ UNCHANGED <<env, cfgVars, umiVars, md, fetched, ixVars, outVars, exitCode,
                 codecVars>>

\* a guard that only fires when the authorities agree
CheckMutableUnlessMismatch ==
  /\ pc = "checkMutable"
  /\ IF md.isMutable = FALSE /\ ~warned
     THEN Throw("checkMutable", "RecordImmutable")
     ELSE Goto("checkMutable", "buildData")
  /\ UNCHANGED <<env, cfgVars, umiVars, recVars, ixVars, outVars, exitCode,
                 codecVars>>

\* lines 128-130
CheckMutable ==
  /\ pc = "checkMutable"
  /\ IF md.isMutable = FALSE
     THEN Throw("checkMutable", "RecordImmutable")
     ELSE Goto("checkMutable", "buildData")
  /\ UNCHANGED <<env, cfgVars, umiVars, recVars, ixVars, outVars, exitCode,
                 codecVars>>

\* NEW_NAME ?? md.name
Coalesce(opt, fallback) == IF opt.defined THEN opt.text ELSE fallback

\* a merge that turns an empty creators list into an absent one
DataV2DropEmptyCreators(rec, newName, newSymbol, newUri) ==
  [ name |-> Coalesce(newName, rec.name),
    symbol |-> Coalesce(newSymbol, rec.symbol),
    uri |-> newUri,
    sellerFeeBasisPoints |-> rec.sellerFeeBasisPoints,
    creators |-> IF rec.creators = Some(<<>>) THEN None ELSE rec.creators,
    collection |-> rec.collection,
    uses |-> rec.uses ]

\* a merge that takes the symbol from NEW_NAME
DataV2SymbolFromName(rec, newName, newSymbol, newUri) ==
  [ name |-> Coalesce(newName, rec.name),
    symbol |-> Coalesce(newName, rec.symbol),
    uri |-> newUri,
    sellerFeeBasisPoints |-> rec.sellerFeeBasisPoints,
    creators |-> rec.creators,
    collection |-> rec.collection,
    uses |-> rec.uses ]

\* lines 133-141
DataV2(rec, newName, newSymbol, newUri) ==
  [ name |-> Coalesce(newName, rec.name),
    symbol |-> Coalesce(newSymbol, rec.symbol),
    uri |-> newUri,
    sellerFeeBasisPoints |-> rec.sellerFeeBasisPoints,
    creators |-> rec.creators,
    collection |-> rec.collection,
    uses |-> rec.uses ]

BuildData ==
  /\ pc = "buildData"
  /\ data' = DataV2(md, NEW_NAME, NEW_SYMBOL, NEW_URI)
  /\ Goto("buildData", "buildInstruction")
  /\ UNCHANGED <<env, cfgVars, umiVars, recVars, builder, umiInstructions,
                 outVars, exitCode, codecVars>>

\* lines 144-151
BuildInstruction ==
  /\ pc = "buildInstruction"
  /\ builder' \in BuilderResults(metadataPda, updateAuthUmi, data,
                                 md.primarySaleHappened, md.isMutable)
  /\ Goto("buildInstruction", "extract")
  /\ UNCHANGED <<env, cfgVars, umiVars, recVars, data, umiInstructions,
                 outVars, exitCode, codecVars>>


\* lines 154-163: the two builder shapes the script understands
extractOk(b) == b.shape \in {"getInstructions", "items"}

extractInstructions(b) ==
  IF b.shape = "getInstructions" THEN getInstructions(b.items)
  ELSE itemsInstructions(b.items)

ExtractInstructions ==
  /\ pc = "extract"
  /\ IF extractOk(builder)
     THEN /\ umiInstructions' = extractInstructions(builder)
          /\ Goto("extract", "checkNonEmpty")
     ELSE /\ Throw("extract", "InstructionBuilderIncompatible")
          /\ UNCHANGED umiInstructions
  /\ UNCHANGED <<env, cfgVars, umiVars, recVars, data, builder, outVars,
                 exitCode, codecVars>>

\* an emptiness check that goes on regardless
CheckNonEmptyWarnOnly ==
  /\ pc = "checkNonEmpty"
  /\ Goto("checkNonEmpty", "newTransaction")
  /\ UNCHANGED <<env, cfgVars, umiVars, recVars, ixVars, outVars, exitCode,
                 codecVars>>

\* lines 165-167
CheckNonEmpty ==
  /\ pc = "checkNonEmpty"
  /\ IF Len(umiInstructions) = 0
     THEN Throw("checkNonEmpty", "NoInstructionsProduced")
     ELSE Goto("checkNonEmpty", "newTransaction")
  /\ UNCHANGED <<env, cfgVars, umiVars, recVars, ixVars, outVars, exitCode,
                 codecVars>>

\* line 170
NewTransaction ==
  /\ pc = "newTransaction"
  /\ tx' = NoTx
  /\ Goto("newTransaction", "addInstructions")
  /\ UNCHANGED <<env, cfgVars, umiVars, recVars, ixVars, serialized, base58Tx,
                 stdout, exitCode, codecVars>>

\* line 171, one iteration: tx.add(toWeb3Instruction(ix))
AddInstruction ==
  /\ pc = "addInstructions"
  /\ Len(tx.instructions) < Len(umiInstructions)
  /\ LET ix == umiInstructions[Len(tx.instructions) + 1]
     IN  IF toWeb3InstructionOk(ix)
         THEN /\ tx' = [tx EXCEPT !.instructions = Append(@, toWeb3Instruction(ix))]
              /\ Goto("addInstruction", "addInstructions")
         ELSE /\ Throw("addInstruction", "AddressDecodeError")
              /\ UNCHANGED tx
  /\ UNCHANGED <<env, cfgVars, umiVars, recVars, ixVars, serialized, base58Tx,
                 stdout, exitCode, codecVars>>

\* lines 174-175, once the loop has consumed every instruction
SetDummyFields ==
  /\ pc = "addInstructions"
  /\ Len(tx.instructions) = Len(umiInstructions)
  /\ tx' = [tx EXCEPT !.recentBlockhash = bs58encode(Repeat(0, KeyLen)),
                      !.feePayer = updateAuthorityWeb3]
  /\ Goto("setDummyFields", "serialize")
  /\ UNCHANGED <<env, cfgVars, umiVars, recVars, ixVars, serialized, base58Tx,
                 stdout, exitCode, codecVars>>

\* lines 177-180
Serialize ==
  /\ pc = "serialize"
  /\ IF serializeOk(tx)
     THEN /\ serialized' = serialize(tx)
          /\ Goto("serialize", "encode")
     ELSE /\ Throw("serialize", "SerializationOverflow")
          /\ UNCHANGED serialized
  /\ UNCHANGED <<env, cfgVars, umiVars, recVars, ixVars, tx, base58Tx, stdout,
                 exitCode, codecVars>>

\* line 182
Encode ==
  /\ pc = "encode"
  /\ base58Tx' = bs58encode(serialized)
  /\ Goto("encode", "print")
  /\ UNCHANGED <<env, cfgVars, umiVars, recVars, ixVars, tx, serialized, stdout,
                 exitCode, codecVars>>

\* lines 184-186
PrintTx ==
  /\ pc = "print"
  /\ stdout' = Append(stdout, base58Tx)
  /\ Goto("print", "done")
  /\ UNCHANGED <<env, cfgVars, umiVars, recVars, ixVars, tx, serialized,
                 base58Tx, exitCode, codecVars>>

\* lines 189-192: report the error and exit with status 1
Catch ==
  /\ pc = "failed"
  /\ pc' = "exited"
  /\ exitCode' = 1
  /\ UNCHANGED <<env, err, cfgVars, umiVars, recVars, ixVars, outVars, trace,
                 codecVars>>

Next ==
  \/ ReadEnv
  \/ AssertKeys
  \/ UmiSetup
  \/ FetchMetadataOk
  \/ FetchMetadataFail
  \/ Report
  \/ CheckMutable
  \/ BuildData
  \/ BuildInstruction
  \/ ExtractInstructions
  \/ CheckNonEmpty
  \/ NewTransaction
  \/ AddInstruction
  \/ SetDummyFields
  \/ Serialize
  \/ Encode
  \/ PrintTx
  \/ Catch

Spec == Init /\ [][Next]_vars

\* ------------------------------------------- the output encoding by itself
MaxCodecLen == 3
CodecBytes == {0, 1, 57, 58, 255}

RECURSIVE SeqsUpTo(_, _)
SeqsUpTo(S, n) ==
  IF n = 0 THEN {<<>>}
  ELSE LET shorter == SeqsUpTo(S, n - 1)
       IN  shorter \cup {Append(q, x) : q \in {r \in shorter : Len(r) = n - 1}, x \in S}

CodecInputs == SeqsUpTo(CodecBytes, MaxCodecLen)

InitCodec ==
  /\ env = [MINT |-> Unset, UPDATE_AUTHORITY |-> Unset, NEW_URI |-> Unset,
            NEW_NAME |-> Unset, NEW_SYMBOL |-> Unset]
  /\ pc = "off"
  /\ Blank
  /\ codecPc = "encode" /\ codecIn \in CodecInputs
  /\ codecText = <<>> /\ codecOut = <<>>

\* line 182 applied to an arbitrary serialized byte sequence
CodecEncode ==
  /\ codecPc = "encode"
  /\ codecText' = bs58encode(codecIn)
  /\ codecPc' = "decode"
  /\ UNCHANGED <<env, pc, err, cfgVars, umiVars, recVars, ixVars, outVars,
                 exitCode, trace, codecIn, codecOut>>

\* the reader of the printed text decodes it
CodecDecode ==
  /\ codecPc = "decode"
  /\ bs58valid(codecText)
  /\ codecOut' = bs58decode(codecText)
  /\ codecPc' = "decoded"
  /\ UNCHANGED <<env, pc, err, cfgVars, umiVars, recVars, ixVars, outVars,
                 exitCode, trace, codecIn, codecText>>

NextCodec ==
  \/ CodecEncode
  \/ CodecDecode

SpecCodec == InitCodec /\ [][NextCodec]_vars


\* ------------------------------------------------------------- properties
Has(step) == \E i \in 1..Len(trace) : trace[i] = step

Fetched == fetched # NoRecord

Ended == pc \in {"failed", "exited", "done"}

Failed(e) == pc \in {"failed", "exited"} /\ err = e

Mismatch == md.updateAuthority # updateAuthUmi

\* C1: a fetched record with isMutable = false makes the run fail with
\* RecordImmutable whether or not the requested authority matches; the
\* builder is never called, no instruction is extracted or adapted, and
\* nothing is serialized, encoded or printed.
C1_ImmutableGuard ==
  (Fetched /\ md.isMutable = FALSE) =>
    /\ pc \in {"report", "checkMutable"} \/ Failed("RecordImmutable")
    /\ ~Has("buildInstruction")
    /\ builder = NoBuilder /\ umiInstructions = <<>> /\ tx = NoTx
    /\ serialized = <<>> /\ base58Tx = <<>> /\ stdout = <<>>

C1_Witness ==
  /\ pc = "exited" /\ err = "RecordImmutable"
  /\ Fetched /\ md.isMutable = FALSE /\ ~Mismatch

\* C2 as stated: every run on a mutable record whose authority differs from
\* the requested one ends with an encoded transaction and the warning.
C2_Original ==
  (Ended /\ Fetched /\ md.isMutable /\ Mismatch) =>
    (pc = "done" /\ Len(stdout) = 1 /\ warned)

\* C2, amended: on a mutable record the authority mismatch never aborts the
\* run.  The run ends with exactly one encoded transaction unless the
\* builder has an unsupported shape, yields no instruction, yields an
\* instruction with an undecodable address, or the transaction exceeds the
\* packet size, and then it fails with that error.  The warning is raised
\* exactly when the on-chain and the requested authority differ.
C2_MismatchNonFatal ==
  /\ Has("report") => (warned = Mismatch)
  /\ err # "AuthorityMismatch"
  /\ (Ended /\ Fetched /\ md.isMutable /\ Mismatch) =>
       \/ pc = "done" /\ stdout = <<base58Tx>> /\ base58Tx # <<>> /\ warned
       \/ Failed("InstructionBuilderIncompatible") /\ builder.shape = "other"
       \/ /\ Failed("NoInstructionsProduced")
          /\ \A i \in 1..Len(builder.items) : builder.items[i].kind # "ix"
       \/ /\ Failed("AddressDecodeError")
          /\ \E i \in 1..Len(builder.items) :
               \E j \in 1..Len(builder.items[i].instruction.keys) :
                 ~bs58valid(builder.items[i].instruction.keys[j].pubkey)
       \/ /\ Failed("SerializationOverflow")
          /\ Len(serialize(tx)) > PACKET_DATA_SIZE

C2_Witness ==
  /\ pc = "done" /\ Fetched /\ md.isMutable /\ Mismatch /\ warned
  /\ Len(stdout) = 1

\* C3: for a request that sets only the URI, the data given to the builder
\* carries the record's creators, collection, uses and sellerFeeBasisPoints
\* unchanged (absent stays absent, present stays present with the same
\* content), and the record itself is as fetched.
C3_FieldPreservation ==
  (Has("buildData") /\ ~NEW_NAME.defined /\ ~NEW_SYMBOL.defined) =>
    /\ data.creators = fetched.creators
    /\ data.collection = fetched.collection
    /\ data.uses = fetched.uses
    /\ data.sellerFeeBasisPoints = fetched.sellerFeeBasisPoints
    /\ md = fetched

C3_Witness ==
  /\ Has("buildInstruction") /\ ~NEW_NAME.defined /\ ~NEW_SYMBOL.defined
  /\ fetched.creators = Some(<<>>) /\ fetched.collection = None
  /\ fetched.uses = Some(Uses1) /\ fetched.sellerFeeBasisPoints = 500

\* whether a builder of a supported shape carries no instruction at all
ZeroInstructions(b) ==
  /\ b.shape \in {"getInstructions", "items"}
  /\ \A i \in 1..Len(b.items) : b.items[i].kind # "ix"

\* C5: a builder of either shape that yields no instruction (an items list
\* of null or instruction-less entries included) makes the run fail with
\* NoInstructionsProduced before any instruction is adapted; a transaction
\* that is serialized or encoded holds at least one instruction.
C5_NoInstructions ==
  /\ (Has("extract") /\ ZeroInstructions(builder)) =>
       /\ pc = "checkNonEmpty" \/ Failed("NoInstructionsProduced")
       /\ umiInstructions = <<>>
       /\ ~Has("newTransaction") /\ ~Has("addInstruction")
       /\ tx = NoTx /\ serialized = <<>> /\ base58Tx = <<>> /\ stdout = <<>>
  /\ (Has("serialize") \/ Has("encode")) => Len(tx.instructions) >= 1

C5_Witness ==
  /\ pc = "exited" /\ err = "NoInstructionsProduced"
  /\ builder.shape = "items" /\ Len(builder.items) = 2

\* C6: the i-th instruction of the transaction is the adapted i-th extracted
\* instruction: same program, same payload, an account list of the same
\* length whose j-th entry has the j-th address, signer flag and writable
\* flag, repeated addresses included.
C6_AccountOrder ==
  /\ Len(tx.instructions) <= Len(umiInstructions)
  /\ Has("setDummyFields") => Len(tx.instructions) = Len(umiInstructions)
  /\ \A i \in 1..Len(tx.instructions) :
       LET w == tx.instructions[i]
           n == umiInstructions[i]
       IN  /\ bs58encode(w.programId) = n.programId
           /\ w.data = n.data
           /\ Len(w.keys) = Len(n.keys)
           /\ \A j \in 1..Len(n.keys) :
                /\ bs58encode(w.keys[j].pubkey) = n.keys[j].pubkey
                /\ w.keys[j].isSigner = n.keys[j].isSigner
                /\ w.keys[j].isWritable = n.keys[j].isWritable

C6_Witness ==
  /\ Has("setDummyFields") /\ Len(tx.instructions) = 2
  /\ Len(tx.instructions[1].keys) = 3
  /\ tx.instructions[1].keys[1].pubkey = tx.instructions[1].keys[3].pubkey
  /\ tx.instructions[1].keys[1].isSigner # tx.instructions[1].keys[3].isSigner

\* C7: the text produced for a byte sequence uses alphabet characters only
\* and decodes back to exactly that byte sequence, leading zero bytes
\* included.
C7_RoundTrip ==
  /\ codecPc \in {"decode", "decoded"} => bs58valid(codecText)
  /\ codecPc = "decoded" => codecOut = codecIn

C7_Witness ==
  /\ codecPc = "decoded" /\ Len(codecIn) = 3
  /\ codecIn[1] = 0 /\ codecIn[2] = 0 /\ codecIn[3] = 255
  /\ codecOut = codecIn

\* what the environment must hold for a run to be allowed to fetch
Present(v) == v.defined /\ Trim(v.text) # <<>>
WellFormedKey(v) ==
  /\ \A i \in 1..Len(Trim(v.text)) : Trim(v.text)[i] < BASE
  /\ Len(bs58decode(Trim(v.text))) = KeyLen
InputsValid ==
  /\ Present(env.MINT) /\ Present(env.UPDATE_AUTHORITY) /\ Present(env.NEW_URI)
  /\ WellFormedKey(env.MINT) /\ WellFormedKey(env.UPDATE_AUTHORITY)

\* C8: the fetch is reached only with MINT, UPDATE_AUTHORITY and NEW_URI
\* present and non-blank and both keys well-formed; with any other input the
\* run fails with an input error and never fetches.
C8_FailFast ==
  /\ (pc = "fetchMetadata" \/ Has("fetchMetadata")) => InputsValid
  /\ (~InputsValid /\ pc \notin {"readEnv", "assertKeys"}) =>
       /\ Failed("MissingEnv") \/ Failed("InvalidPublicKey")
       /\ ~Has("umiSetup") /\ ~Fetched

C8_Witness ==
  /\ pc = "exited" /\ err = "InvalidPublicKey" /\ ~Has("fetchMetadata")
  /\ Present(env.UPDATE_AUTHORITY) /\ ~WellFormedKey(env.UPDATE_AUTHORITY)
  /\ WellFormedKey(env.MINT)

\* C9: the data's name is the trimmed NEW_NAME when one is supplied and the
\* record's name otherwise; the symbol likewise from NEW_SYMBOL, whatever
\* NEW_NAME is; the uri is always the trimmed NEW_URI.
C9_Merge ==
  Has("buildData") =>
    /\ data.name = IF Present(env.NEW_NAME) THEN Trim(env.NEW_NAME.text)
                   ELSE fetched.name
    /\ data.symbol = IF Present(env.NEW_SYMBOL) THEN Trim(env.NEW_SYMBOL.text)
                     ELSE fetched.symbol
    /\ data.uri = Trim(env.NEW_URI.text)

C9_Witness ==
  /\ Has("buildData") /\ Present(env.NEW_NAME) /\ ~Present(env.NEW_SYMBOL)
  /\ data.name = <<30>> /\ data.symbol = fetched.symbol /\ data.uri = <<20, 21>>

\* the statements of a successful run over n instructions, in order
Canon(n) ==
  << "readEnv", "assertKeys", "umiSetup", "fetchMetadata", "report",
     "checkMutable", "buildData", "buildInstruction", "extract",
     "checkNonEmpty", "newTransaction" >>
  \o [i \in 1..n |-> "addInstruction"]
  \o << "setDummyFields", "serialize", "encode", "print" >>

IsPrefix(p, q) == Len(p) <= Len(q) /\ p = SubSeq(q, 1, Len(p))

C10_State ==
  /\ Len(stdout) <= 1
  /\ IsPrefix(trace, Canon(Len(umiInstructions)))
  /\ stdout # <<>> =>
       /\ err = "none" /\ pc = "done"
       /\ trace = Canon(Len(umiInstructions))
       /\ Len(umiInstructions) >= 1
       /\ Len(tx.instructions) = Len(umiInstructions)
       /\ stdout = <<base58Tx>>
  /\ err # "none" => (pc \in {"failed", "exited"} /\ stdout = <<>>)
  /\ pc = "done" => stdout # <<>>

\* C10: the transaction is printed at most once and only after every step
\* has succeeded in order over a non-empty instruction list; once a step has
\* failed nothing but the exit happens: no step runs or is retried and
\* nothing is printed.
C10_Terminal ==
  /\ []C10_State
  /\ [][err # "none" =>
          /\ pc = "failed" /\ pc' = "exited"
          /\ trace' = trace /\ stdout' = stdout /\ err' = err
          /\ tx' = tx /\ serialized' = serialized /\ base58Tx' = base58Tx]_vars

C10_Witness ==
  /\ pc = "exited" /\ err = "SerializationOverflow" /\ stdout = <<>>
  /\ Has("serialize") /\ ~Has("encode")

====
